---- MODULE Spec2Model ----
(***************************************************************************)
(* router-kv: a key-value facade (src/mod.ts, kvInterface) over a libsql   *)
(* table kv(k, v, created_at, updated_at).  The model covers the session   *)
(* operations set/get/delete/deleteAll/list, the transaction wrapper with  *)
(* its event buffer, and the SQL the operations send, evaluated the way    *)
(* SQLite evaluates it (LIKE, INSERT OR REPLACE, ORDER BY, LIMIT/OFFSET).  *)
(*                                                                         *)
(* Strings that the code takes apart (keys, prefixes, LIKE patterns) are   *)
(* sequences of one-character strings.  JavaScript values are named by     *)
(* their source text ("1", "NaN", "10n", ...); the value column holds the  *)
(* JSON text that JSON.stringify produced.                                 *)
(***************************************************************************)
EXTENDS Integers, Sequences, FiniteSets, TLC

VARIABLES store, now, listener, tx, delivered, last, nops, closed, conf,
          rbuf

vars == <<store, now, listener, tx, delivered, last, nops, closed, conf, rbuf>>

(***************************** bounds ***************************************)
\* seconds the clock (CURRENT_TIMESTAMP, new Date()) can show
MaxClock == 2
\* session operations (set, get, delete, deleteAll, list, sync) the callers issue
MaxOps == 2
\* transactions a caller may have in flight on the root session
MaxTx == 1
\* largest limit and offset passed to list
MaxLimit == 3

(***************************** domains **************************************)
Root == 0
TxIds == 1..MaxTx
Sessions == {Root} \cup TxIds

\* keys the callers use: "a", "a:b", "A:b"
Keys == { <<"a">>, <<"a", ":", "b">>, <<"A", ":", "b">> }
\* prefixes passed to deleteAll: "", "a", "a:"
DelPrefixes == { <<>>, <<"a">>, <<"a", ":">> }
\* prefixes passed to list: "", "a", "A", "a:", "_", "a:b"
ListPrefixes == { <<>>, <<"a">>, <<"A">>, <<"a", ":">>, <<"_">>,
                  <<"a", ":", "b">> }
\* mutant: the column check lets the implicit rowid column through
ValidColumnsAndRowid == {"k", "v", "created_at", "updated_at", "rowid"}

\* the columns list accepts for orderBy
ValidColumns == {"k", "v", "created_at", "updated_at"}
\* the options a caller passes to list
ListOptions == [limit : 0..MaxLimit, offset : 0..MaxLimit, reverse : BOOLEAN,
                orderBy : ValidColumns, includeExactMatch : BOOLEAN]

\* the options list uses where the caller gives none
DefaultOptions == [limit |-> 100, offset |-> 0, reverse |-> FALSE,
                   orderBy |-> "k", includeExactMatch |-> FALSE]
\* options a caller passes to list between writes; one names a column that
\* is not a column of kv
ReadOptions ==
    { DefaultOptions,
      [DefaultOptions EXCEPT !.orderBy = "rowid"],
      [DefaultOptions EXCEPT !.includeExactMatch = TRUE, !.reverse = TRUE,
                             !.orderBy = "v", !.limit = 1] }
\* the options of set in the class implementation
SetOptions == [returning : BOOLEAN]

JsNull == "null"
\* the number 1, the object {}, NaN, a bigint, an ArrayBuffer
JsNum1 == "1"
\* the numbers 0 and 2, which an account balance can also be
JsNum0 == "0"
JsNum2 == "2"
JsObj == "{}"
JsNaN == "NaN"
JsBigInt == "10n"
JsBuffer == "ArrayBuffer"
\* the values the callers pass to set
Values == {JsNum1, JsNaN, JsBigInt, JsBuffer}

\* a key or a timestamp that a record spread from an undefined row lacks
UndefKey == <<"undefined">>
UndefTime == 0

(***************************** Record codec *********************************)
\* JSON.stringify throws a TypeError for a bigint
CanStringify(v) == v # JsBigInt

\* JSON.stringify(value): NaN serialises as null, an ArrayBuffer (no own
\* enumerable properties) as {}
JSONStringify(v) ==
    CASE v = JsNum1 -> "1"
      [] v = JsNum0 -> "0"
      [] v = JsNum2 -> "2"
      [] v = JsObj -> "{}"
      [] v = JsNaN -> "null"
      [] v = JsBuffer -> "{}"
      [] OTHER -> "null"

\* JSON.parse(text) of the texts JSONStringify produces
JSONParse(text) ==
    CASE text = "1" -> JsNum1
      [] text = "0" -> JsNum0
      [] text = "2" -> JsNum2
      [] text = "{}" -> JsObj
      [] text = "null" -> JsNull
      [] OTHER -> JsNull

\* a payload in the value column that is not JSON text: a row another writer
\* of the table left
Malformed == "{oops"

\* JSON.parse(text) returns; it throws a SyntaxError on any other text
CanParse(text) == text \in {"0", "1", "2", "{}", "null"}

(***************************** SQL evaluation *******************************)
\* SQLite's LIKE folds ASCII case
Lower(c) == IF c = "A" THEN "a" ELSE IF c = "B" THEN "b" ELSE c

\* s LIKE pat: % matches any run of characters, _ any one character, every
\* other character matches itself case-insensitively
RECURSIVE Like(_, _)
Like(pat, s) ==
    IF pat = <<>> THEN s = <<>>
    ELSE IF Head(pat) = "%"
         THEN Like(Tail(pat), s) \/ (s # <<>> /\ Like(pat, Tail(s)))
         ELSE /\ s # <<>>
              /\ (Head(pat) = "_" \/ Lower(Head(pat)) = Lower(Head(s)))
              /\ Like(Tail(pat), Tail(s))

\* SELECT * FROM kv WHERE k = ?  (the rows, at most one)
SelectRow(db, key) ==
    IF key \in DOMAIN db
    THEN << [k |-> key, v |-> db[key].v,
             created_at |-> db[key].created_at,
             updated_at |-> db[key].updated_at] >>
    ELSE << >>

\* INSERT OR REPLACE INTO kv (k, v) VALUES (?, ?): REPLACE removes the row that
\* holds the key and inserts a new one, whose created_at and updated_at take
\* their DEFAULT CURRENT_TIMESTAMP
InsertOrReplace(db, key, blob, t) ==
    [x \in (DOMAIN db) \cup {key} |->
        IF x = key THEN [v |-> blob, created_at |-> t, updated_at |-> t]
        ELSE db[x]]

\* DELETE FROM kv WHERE k=?
DeleteRow(db, key) == [x \in (DOMAIN db) \ {key} |-> db[x]]

\* DELETE FROM kv WHERE k LIKE ? || '%'
DeleteLike(db, arg) ==
    [x \in {y \in DOMAIN db : ~Like(arg \o <<"%">>, y)} |-> db[x]]

(***************************** sessions *************************************)
\* mutant: the probe finds a transaction method on every handle
IsTransactionNever(s) == FALSE

\* isTransaction(): the bound handle has no transaction method
IsTransaction(s) == s # Root

\* the table as the session's handle sees it: the committed table for the
\* client, the transaction's working copy for a transaction handle
Db(s, st, txs) == IF s = Root THEN st ELSE txs[s].db

DbOf(s) == Db(s, store, tx)

\* mutant: the backing store lets write transactions overlap
LockedNever == FALSE

\* some open transaction holds the backing store's write lock (transaction
\* mode "write" is BEGIN IMMEDIATE); it is released by commit or rollback
Locked == \E t \in DOMAIN tx : tx[t].pc \in {"cb", "commit"} \/
                               (tx[t].pc = "rollback" /\ ~tx[t].committed)

\* the session's handle accepts statements: a nested session while its
\* callback runs, the root session always
Usable(s) == IF s = Root THEN TRUE ELSE tx[s].pc = "cb"

\* a write through the handle can proceed: a write on the root session waits
\* for the write lock
Writable(s) == IF s = Root THEN ~Locked ELSE tx[s].pc = "cb"

(***************************** openKV ***************************************)
JsUndefined == "undefined"
\* the arguments a caller passes to openKV: a missing or a given url and
\* token; no syncInterval, the numbers 0 and 60, NaN, the strings "abc" and
\* "60"; no or a given readReplicaPath
Urls == {"", "libsql://db"}
Tokens == {"", "token"}
SyncIntervals == {JsUndefined, "0", "60", JsNaN, "'abc'", "'60'"}
ReplicaPaths == {JsUndefined, "file:replica.db"}

\* JavaScript's truthiness of the argument values
Truthy(x) == x \notin {JsUndefined, "", "0", JsNaN}

\* isNaN(x): x converted to a number is NaN
IsNaN(x) == x \in {JsUndefined, JsNaN, "'abc'"}

\* openKV has not been called yet with these arguments
Unopened == [url : Urls, authToken : Tokens, syncInterval : SyncIntervals,
             readReplicaPath : ReplicaPaths, out : {"none"}, created : {FALSE}]

\* the arguments and outcome of the openKV call that made the root session
Opened == [url |-> "libsql://db", authToken |-> "token",
           syncInterval |-> JsUndefined, readReplicaPath |-> JsUndefined,
           out |-> "opened", created |-> TRUE]

\* openKV(url, authToken, options): the three checks throw an Error; then the
\* client is created and setupDatabase sends the schema, which may fail
OpenKV ==
    /\ conf.out = "none"
    /\ IF \/ ~Truthy(conf.url)
          \/ ~Truthy(conf.authToken)
          \/ (Truthy(conf.syncInterval) /\ IsNaN(conf.syncInterval))
       THEN conf' = [conf EXCEPT !.out = "Error"]
       ELSE \E bok \in BOOLEAN :
               conf' = [conf EXCEPT !.created = TRUE,
                                    !.out = IF bok THEN "opened"
                                            ELSE "BackingError"]
    /\ UNCHANGED <<store, now, listener, tx, delivered, last, nops, closed, rbuf>>

\* a transaction slot before transaction() is called on it
IdleTx == [pc |-> "idle", db |-> << >>, before |-> << >>, buf |-> << >>,
           log |-> << >>, mark |-> 0, sent |-> 0, threw |-> FALSE,
           committed |-> FALSE, ret |-> "none", out |-> "none", val |-> "none",
           calls |-> << >>, from |-> 0, lost |-> FALSE]

\* no operation has completed yet
NoOp == [sess |-> Root, op |-> "none", k |-> << >>, v |-> JsNull,
         out |-> "none", io |-> FALSE, ret |-> << >>]

\* what the callback of transaction() may return
CbResults == {"r1", "r2"}

Init ==
    /\ store = << >>
    /\ now = 1
    /\ listener \in BOOLEAN
    /\ tx = [t \in TxIds |-> IdleTx]
    /\ delivered = << >>
    /\ last = NoOp
    /\ nops = 0
    /\ closed = FALSE
    /\ conf = Opened
    /\ rbuf = << >>

\* CURRENT_TIMESTAMP and the wall clock advance
Tick ==
    /\ now < MaxClock
    /\ now' = now + 1
    /\ UNCHANGED <<store, listener, closed, conf, rbuf, tx, delivered, last, nops>>

(***************************** set / delete *********************************)
\* delete(key): SELECT the row, DELETE it, then build the event from the row
\* that was selected (undefined when the key is absent) and the wall clock
DeleteEffect(s, key) ==
    LET rows == SelectRow(DbOf(s), key)
        record == [k |-> IF rows # << >> THEN key ELSE UndefKey,
                   v |-> JsNull,
                   created_at |-> IF rows # << >> THEN rows[1].created_at
                                  ELSE UndefTime,
                   updated_at |-> now]
    IN [db |-> DeleteRow(DbOf(s), key),
        evs |-> IF listener THEN << [type |-> "delete", data |-> record] >>
                ELSE << >>,
        ret |-> << >>,
        log |-> [type |-> "delete", k |-> key]]

\* mutant: null is not routed to delete but written like any other value
SetEffectStoresNull(s, key, v) ==
    LET db2 == InsertOrReplace(DbOf(s), key, JSONStringify(v), now)
        result == SelectRow(db2, key)[1]
        record == [result EXCEPT !.v = JSONParse(result.v)]
    IN [db |-> db2,
        evs |-> IF listener THEN << [type |-> "set", data |-> record] >>
                ELSE << >>,
        ret |-> << record >>,
        log |-> [type |-> "set", k |-> key]]

\* mutant: the record returned carries the value as it was passed in
SetEffectEchoesValue(s, key, v) ==
    IF v = JsNull THEN DeleteEffect(s, key)
    ELSE LET db2 == InsertOrReplace(DbOf(s), key, JSONStringify(v), now)
             result == SelectRow(db2, key)[1]
             record == [result EXCEPT !.v = v]
         IN [db |-> db2,
             evs |-> IF listener THEN << [type |-> "set", data |-> record] >>
                     ELSE << >>,
             ret |-> << record >>,
             log |-> [type |-> "set", k |-> key]]

\* mutant: the event of a set leaves the operation without a look at the
\* listener
SetEffectAlwaysQueues(s, key, v) ==
    IF v = JsNull THEN DeleteEffect(s, key)
    ELSE LET db2 == InsertOrReplace(DbOf(s), key, JSONStringify(v), now)
             result == SelectRow(db2, key)[1]
             record == [result EXCEPT !.v = JSONParse(result.v)]
         IN [db |-> db2,
             evs |-> << [type |-> "set", data |-> record] >>,
             ret |-> << record >>,
             log |-> [type |-> "set", k |-> key]]

\* set(key, value) with a value JSON.stringify accepts: null routes to delete;
\* otherwise INSERT OR REPLACE, read the row back, decode it, build the event
SetEffect(s, key, v) ==
    IF v = JsNull THEN DeleteEffect(s, key)
    ELSE LET db2 == InsertOrReplace(DbOf(s), key, JSONStringify(v), now)
             result == SelectRow(db2, key)[1]
             record == [result EXCEPT !.v = JSONParse(result.v)]
         IN [db |-> db2,
             evs |-> IF listener THEN << [type |-> "set", data |-> record] >>
                     ELSE << >>,
             ret |-> << record >>,
             log |-> [type |-> "set", k |-> key]]

\* mutant: the empty prefix gets ":" appended as well
DeleteAllEffectAlwaysColon(s, prefix) ==
    [db |-> DeleteLike(DbOf(s), prefix \o <<":">>),
     evs |-> << >>,
     ret |-> << >>,
     log |-> [type |-> "deleteAll", k |-> prefix]]

\* deleteAll(prefix): a non-empty prefix gets ":" appended; no event is built
DeleteAllEffect(s, prefix) ==
    LET arg == IF prefix # << >> THEN prefix \o <<":">> ELSE prefix
    IN [db |-> DeleteLike(DbOf(s), arg),
        evs |-> << >>,
        ret |-> << >>,
        log |-> [type |-> "deleteAll", k |-> prefix]]

\* mutant: the event is handed to the listener at once on every session, and
\* on a nested session pushed on the buffer as well
DispatchInline(s, opname, key, v, eff, lok) ==
    /\ IF s # Root
       THEN /\ tx' = [tx EXCEPT ![s].db = eff.db,
                                ![s].buf = @ \o eff.evs,
                                ![s].log = Append(@, eff.log)]
            /\ UNCHANGED store
       ELSE /\ store' = eff.db
            /\ UNCHANGED tx
    /\ delivered' = delivered \o
           [i \in 1..Len(eff.evs) |-> [src |-> s, ev |-> eff.evs[i]]]
    /\ last' = [sess |-> s, op |-> opname, k |-> key, v |-> v,
                out |-> IF eff.evs # << >> /\ ~lok THEN "KVError" ELSE "ok",
                io |-> TRUE,
                ret |-> IF eff.evs # << >> /\ ~lok THEN << >> ELSE eff.ret]
    /\ nops' = nops + 1
    /\ UNCHANGED <<now, listener, closed, conf, rbuf>>

\* mutant: a write on the root session is undone when the listener throws
DispatchUndoesWrite(s, opname, key, v, eff, lok) ==
    /\ IF IsTransaction(s)
       THEN /\ tx' = [tx EXCEPT ![s].db = eff.db,
                                ![s].buf = @ \o eff.evs,
                                ![s].log = Append(@, eff.log)]
            /\ UNCHANGED <<store, delivered>>
       ELSE /\ store' = IF eff.evs # << >> /\ ~lok THEN store ELSE eff.db
            /\ delivered' = delivered \o
                   [i \in 1..Len(eff.evs) |-> [src |-> s, ev |-> eff.evs[i]]]
            /\ UNCHANGED tx
    /\ LET thrown == ~IsTransaction(s) /\ eff.evs # << >> /\ ~lok
       IN last' = [sess |-> s, op |-> opname, k |-> key, v |-> v,
                   out |-> IF thrown THEN "KVError" ELSE "ok", io |-> TRUE,
                   ret |-> IF thrown THEN << >> ELSE eff.ret]
    /\ nops' = nops + 1
    /\ UNCHANGED <<now, listener, closed, conf, rbuf>>

\* the event leaves the operation: pushed on the buffer of a nested session,
\* handed to the listener (which returns or throws, lok) on a root session
Dispatch(s, opname, key, v, eff, lok) ==
    /\ IF IsTransaction(s)
       THEN /\ tx' = [tx EXCEPT ![s].db = eff.db,
                                ![s].buf = @ \o eff.evs,
                                ![s].log = Append(@, eff.log)]
            /\ UNCHANGED <<store, delivered>>
       ELSE /\ store' = eff.db
            /\ delivered' = delivered \o
                   [i \in 1..Len(eff.evs) |-> [src |-> s, ev |-> eff.evs[i]]]
            /\ UNCHANGED tx
    /\ LET thrown == ~IsTransaction(s) /\ eff.evs # << >> /\ ~lok
       IN last' = [sess |-> s, op |-> opname, k |-> key, v |-> v,
                   out |-> IF thrown THEN "KVError" ELSE "ok", io |-> TRUE,
                   ret |-> IF thrown THEN << >> ELSE eff.ret]
    /\ nops' = nops + 1
    /\ UNCHANGED <<now, listener, closed, conf, rbuf>>

\* the operation throws a KVError before it has sent anything to the backing
\* store
Rejects(s, opname, key, v) ==
    /\ last' = [sess |-> s, op |-> opname, k |-> key, v |-> v,
                out |-> "KVError", io |-> FALSE, ret |-> << >>]
    /\ nops' = nops + 1
    /\ UNCHANGED <<store, now, listener, closed, conf, rbuf, tx, delivered>>

\* mutant: a closed client goes on accepting statements
ClosedNever(s) == FALSE

\* the client behind the session has been closed: it rejects every statement
Closed(s) == s = Root /\ closed

\* the backing store throws on the statement the operation sends; the catch
\* block of the operation wraps the error as a KVError
BackingThrows(s, opname, key, v) ==
    /\ last' = [sess |-> s, op |-> opname, k |-> key, v |-> v,
                out |-> "KVError", io |-> TRUE, ret |-> << >>]
    /\ nops' = nops + 1
    /\ UNCHANGED <<store, now, listener, closed, conf, rbuf, tx, delivered>>

\* the listener's outcomes that matter: it can only throw where it is called
ListenerOutcomes(s, eff) ==
    IF ~IsTransaction(s) /\ eff.evs # << >> THEN BOOLEAN ELSE {TRUE}

Set(s, key, v) ==
    /\ Usable(s)
    /\ nops < MaxOps
    /\ IF v # JsNull /\ ~CanStringify(v) THEN Rejects(s, "set", key, v)
       ELSE IF Closed(s) THEN BackingThrows(s, "set", key, v)
       ELSE /\ Writable(s)
            /\ \E lok \in ListenerOutcomes(s, SetEffect(s, key, v)) :
                  Dispatch(s, "set", key, v, SetEffect(s, key, v), lok)

Delete(s, key) ==
    /\ Usable(s)
    /\ nops < MaxOps
    /\ IF Closed(s) THEN BackingThrows(s, "delete", key, JsNull)
       ELSE /\ Writable(s)
            /\ \E lok \in ListenerOutcomes(s, DeleteEffect(s, key)) :
                  Dispatch(s, "delete", key, JsNull, DeleteEffect(s, key), lok)

DeleteAll(s, prefix) ==
    /\ Usable(s)
    /\ nops < MaxOps
    /\ IF Closed(s) THEN BackingThrows(s, "deleteAll", prefix, JsNull)
       ELSE /\ Writable(s)
            /\ Dispatch(s, "deleteAll", prefix, JsNull,
                        DeleteAllEffect(s, prefix), TRUE)

(***************************** get *****************************************)
\* mutant: the first row is decoded without a look at the number of rows
GetResultOfFirstRow(db, key) ==
    LET rows == SelectRow(db, key)
    IN IF rows = << >>
       THEN << [k |-> UndefKey, v |-> JsNull, created_at |-> UndefTime,
                updated_at |-> UndefTime] >>
       ELSE << [k |-> rows[1].k, v |-> JSONParse(rows[1].v),
                created_at |-> rows[1].created_at,
                updated_at |-> rows[1].updated_at] >>

\* get(key): null when no row comes back, else the row with v decoded
GetResult(db, key) ==
    LET rows == SelectRow(db, key)
    IN IF rows = << >> THEN << >>
       ELSE << [k |-> rows[1].k, v |-> JSONParse(rows[1].v),
                created_at |-> rows[1].created_at,
                updated_at |-> rows[1].updated_at] >>

\* mutant: a payload that does not parse is passed over
GetThrowsNever(db, key) == FALSE

\* JSON.parse throws on the payload of the row get read
GetThrows(db, key) ==
    LET rows == SelectRow(db, key)
    IN rows # << >> /\ ~CanParse(rows[1].v)

\* mutant: get tells the listener what it read
GetNotifies(s, key) ==
    /\ Usable(s)
    /\ nops < MaxOps
    /\ last' = [sess |-> s, op |-> "get", k |-> key, v |-> JsNull,
                out |-> "ok", io |-> TRUE, ret |-> GetResult(DbOf(s), key)]
    /\ delivered' = delivered \o
          [i \in 1..Len(GetResult(DbOf(s), key)) |->
              [src |-> s, ev |-> [type |-> "get",
                                  data |-> GetResult(DbOf(s), key)[i]]]]
    /\ nops' = nops + 1
    /\ UNCHANGED <<store, now, listener, closed, conf, rbuf, tx>>

Get(s, key) ==
    /\ Usable(s)
    /\ nops < MaxOps
    /\ IF Closed(s) \/ GetThrows(DbOf(s), key)
       THEN BackingThrows(s, "get", key, JsNull)
       ELSE /\ last' = [sess |-> s, op |-> "get", k |-> key, v |-> JsNull,
                        out |-> "ok", io |-> TRUE,
                        ret |-> GetResult(DbOf(s), key)]
            /\ nops' = nops + 1
            /\ UNCHANGED <<store, now, listener, closed, conf, rbuf, tx, delivered>>

(***************************** list ****************************************)
\* queryWithColon: a non-empty prefix that does not end in ":" gets one
ScanPrefix(prefix) ==
    IF prefix # << >> /\ prefix[Len(prefix)] # ":" THEN prefix \o <<":">>
    ELSE prefix

\* mutant: the exact-match clause is given queryWithColon as well
WhereExactOnScanPrefix(key, prefix, includeExactMatch) ==
    \/ Like(ScanPrefix(prefix) \o <<"%">>, key)
    \/ (includeExactMatch /\ key = ScanPrefix(prefix))

\* WHERE k LIKE ? || '%' [OR k = ?] with args [queryWithColon, query]
Where(key, prefix, includeExactMatch) ==
    \/ Like(ScanPrefix(prefix) \o <<"%">>, key)
    \/ (includeExactMatch /\ key = prefix)

\* whereCondition: the SQL text of the predicate, as the pieces it is
\* concatenated from
WhereCondition(o) ==
    IF o.includeExactMatch THEN <<"k LIKE ? || '%' ", " OR k = ?">>
    ELSE <<"k LIKE ? || '%' ">>

\* orderQuery: the column and direction, then k and the direction when the
\* column is not k
OrderQuery(o) ==
    LET orderDirection == IF o.reverse THEN "DESC" ELSE "ASC"
    IN <<o.orderBy, " ", orderDirection>> \o
       (IF o.orderBy # DefaultOptions.orderBy
        THEN <<", ", DefaultOptions.orderBy, " ", orderDirection>>
        ELSE << >>)

\* args: queryWithColon, then query with includeExactMatch
WhereArgs(prefix, o) ==
    <<ScanPrefix(prefix)>> \o
    (IF o.includeExactMatch THEN <<prefix>> ELSE << >>)

\* mutant: the prefix is written into the text of the predicate
ListStatementsInline(prefix, o) ==
    [data |-> [sql |-> <<"SELECT k,v,created_at,updated_at FROM kv WHERE ",
                         "k LIKE '">> \o ScanPrefix(prefix) \o <<"%' ">> \o
                       <<" ORDER BY ">> \o OrderQuery(o) \o
                       <<" LIMIT ? OFFSET ?;">>,
               args |-> <<o.limit, o.offset>>],
     count |-> [sql |-> <<"SELECT COUNT(*) as total FROM kv WHERE ",
                          "k LIKE '">> \o ScanPrefix(prefix) \o <<"%' ">> \o
                        <<";">>,
                args |-> << >>]]

\* the two statements of the batch list sends: the data query and the count
\* query, each with its SQL text and its bound arguments
ListStatements(prefix, o) ==
    [data |-> [sql |-> <<"SELECT k,v,created_at,updated_at FROM kv WHERE ">> \o
                       WhereCondition(o) \o <<" ORDER BY ">> \o
                       OrderQuery(o) \o <<" LIMIT ? OFFSET ?;">>,
               args |-> WhereArgs(prefix, o) \o <<o.limit, o.offset>>],
     count |-> [sql |-> <<"SELECT COUNT(*) as total FROM kv WHERE ">> \o
                        WhereCondition(o) \o <<";">>,
                args |-> WhereArgs(prefix, o)]]

\* the byte of a character: keys compare as SQLite compares TEXT (memcmp)
CharCode(c) ==
    CASE c = ":" -> 58
      [] c = "A" -> 65
      [] c = "B" -> 66
      [] c = "_" -> 95
      [] c = "a" -> 97
      [] c = "b" -> 98
      [] OTHER -> 0

RECURSIVE KeyLess(_, _)
KeyLess(a, b) ==
    IF b = << >> THEN FALSE
    ELSE IF a = << >> THEN TRUE
    ELSE IF Head(a) # Head(b) THEN CharCode(Head(a)) < CharCode(Head(b))
    ELSE KeyLess(Tail(a), Tail(b))

\* the stored texts in memcmp order: "0" < "1" < "2" < "null" < "{oops" < "{}"
BlobRank(text) ==
    CASE text = "1" -> 49
      [] text = "0" -> 48
      [] text = "2" -> 50
      [] text = "null" -> 110
      [] text = "{oops" -> 122
      [] text = "{}" -> 123
      [] OTHER -> 0

\* row a sorts before row b on the column, ascending
ColLess(col, a, b) ==
    CASE col = "k" -> KeyLess(a.k, b.k)
      [] col = "v" -> BlobRank(a.v) < BlobRank(b.v)
      [] col = "created_at" -> a.created_at < b.created_at
      [] OTHER -> a.updated_at < b.updated_at

\* mutant: the second ORDER BY term is always ascending
BeforeTieAscending(a, b, orderBy, reverse) ==
    LET first(x, y) == IF reverse THEN ColLess(orderBy, y, x)
                       ELSE ColLess(orderBy, x, y)
    IN \/ first(a, b)
       \/ /\ orderBy # "k"
          /\ ~ColLess(orderBy, a, b) /\ ~ColLess(orderBy, b, a)
          /\ KeyLess(a.k, b.k)

\* ORDER BY orderBy dir [, k dir]: the second term is there when orderBy is
\* not the default column k
Before(a, b, orderBy, reverse) ==
    LET lt(x, y) ==
            \/ ColLess(orderBy, x, y)
            \/ /\ orderBy # "k"
               /\ ~ColLess(orderBy, x, y) /\ ~ColLess(orderBy, y, x)
               /\ KeyLess(x.k, y.k)
    IN IF reverse THEN lt(b, a) ELSE lt(a, b)

\* the rows the WHERE clause selects
Matching(db, prefix, includeExactMatch) ==
    { SelectRow(db, key)[1] :
        key \in {x \in DOMAIN db : Where(x, prefix, includeExactMatch)} }

\* mutant: the rows are ordered by k whatever the column asked for
OrderedByKey(rows, orderBy, reverse) ==
    [i \in 1..Cardinality(rows) |->
        CHOOSE r \in rows :
            Cardinality({q \in rows : Before(q, r, "k", reverse)}) = i - 1]

\* the selected rows in ORDER BY order
Ordered(rows, orderBy, reverse) ==
    [i \in 1..Cardinality(rows) |->
        CHOOSE r \in rows :
            Cardinality({q \in rows : Before(q, r, orderBy, reverse)}) = i - 1]

\* mutant: the limit is taken as the index of the last row
LimitAsEnd(rows, limit, offset) ==
    SubSeq(rows, offset + 1, IF limit < Len(rows) THEN limit ELSE Len(rows))

\* LIMIT ? OFFSET ?
LimitOffset(rows, limit, offset) ==
    SubSeq(rows, offset + 1,
           IF offset + limit < Len(rows) THEN offset + limit ELSE Len(rows))

\* mutant: total is counted on the page
ListResultCountsPage(db, prefix, o) ==
    LET rows == Matching(db, prefix, o.includeExactMatch)
        page == LimitOffset(Ordered(rows, o.orderBy, o.reverse),
                            o.limit, o.offset)
    IN [data |-> [i \in 1..Len(page) |->
                     [page[i] EXCEPT !.v = JSONParse(page[i].v)]],
        total |-> Len(page)]

\* list(prefix, options): the page with v decoded, and the COUNT(*) of the
\* same WHERE clause
ListResult(db, prefix, o) ==
    LET rows == Matching(db, prefix, o.includeExactMatch)
        page == LimitOffset(Ordered(rows, o.orderBy, o.reverse),
                            o.limit, o.offset)
    IN [data |-> [i \in 1..Len(page) |->
                     [page[i] EXCEPT !.v = JSONParse(page[i].v)]],
        total |-> Cardinality(rows)]

\* JSON.parse throws on the payload of a row of the page
ListThrows(db, prefix, o) ==
    LET rows == Matching(db, prefix, o.includeExactMatch)
        page == LimitOffset(Ordered(rows, o.orderBy, o.reverse),
                            o.limit, o.offset)
    IN \E i \in 1..Len(page) : ~CanParse(page[i].v)

List(s, prefix, o) ==
    /\ Usable(s)
    /\ nops < MaxOps
    /\ LET result == ListResult(DbOf(s), prefix, o)
       IN last' = IF o.orderBy \notin ValidColumns
                  THEN [sess |-> s, op |-> "list", k |-> prefix, v |-> JsNull,
                        out |-> "KVError", io |-> FALSE, ret |-> << >>,
                        total |-> 0, opts |-> o, batch |-> << >>]
                  ELSE IF Closed(s) \/ ListThrows(DbOf(s), prefix, o)
                  THEN [sess |-> s, op |-> "list", k |-> prefix, v |-> JsNull,
                        out |-> "KVError", io |-> TRUE, ret |-> << >>,
                        total |-> 0, opts |-> o,
                        batch |-> <<ListStatements(prefix, o)>>]
                  ELSE [sess |-> s, op |-> "list", k |-> prefix, v |-> JsNull,
                        out |-> "ok", io |-> TRUE, ret |-> result.data,
                        total |-> result.total, opts |-> o,
                        batch |-> <<ListStatements(prefix, o)>>]
    /\ nops' = nops + 1
    /\ UNCHANGED <<store, now, listener, closed, conf, rbuf, tx, delivered>>

(***************************** transaction **********************************)
\* an earlier call of transaction() in this slot ended without commit and
\* left events on the buffer of its nested session
Dropped(t) ==
    tx[t].lost \/ (tx[t].pc = "done" /\ ~tx[t].committed /\ tx[t].buf # << >>)

\* mutant: the nested session is handed the buffer of the attempt before
BeginKeepsQueue(t) ==
    /\ tx[t].pc \in {"idle", "done"}
    /\ \E bok \in BOOLEAN :
          IF bok /\ ~Locked /\ ~closed
          THEN tx' = [tx EXCEPT ![t] = [IdleTx EXCEPT !.pc = "cb", !.db = store,
                                                      !.before = store,
                                                      !.mark = Len(delivered),
                                                      !.calls = <<"transaction">>,
                                                      !.from = nops,
                                                      !.lost = Dropped(t),
                                                      !.buf = tx[t].buf]]
          ELSE tx' = [tx EXCEPT ![t] = [IdleTx EXCEPT !.pc = "done",
                                                      !.out = "BackingError",
                                                      !.lost = Dropped(t)]]
    /\ UNCHANGED <<store, now, listener, closed, conf, rbuf, delivered, last, nops>>

\* transaction(cb) on the root session: open the backing transaction (a raw
\* backing error escapes when that fails) and hand a nested session to cb
Begin(t) ==
    /\ tx[t].pc \in {"idle", "done"}
    /\ \E bok \in BOOLEAN :
          IF bok /\ ~Locked /\ ~closed
          THEN tx' = [tx EXCEPT ![t] = [IdleTx EXCEPT !.pc = "cb", !.db = store,
                                                      !.before = store,
                                                      !.mark = Len(delivered),
                                                      !.calls = <<"transaction">>,
                                                      !.from = nops,
                                                      !.lost = Dropped(t)]]
          ELSE tx' = [tx EXCEPT ![t] = [IdleTx EXCEPT !.pc = "done",
                                                      !.out = "BackingError",
                                                      !.lost = Dropped(t)]]
    /\ UNCHANGED <<store, now, listener, closed, conf, rbuf, delivered, last, nops>>

\* transaction(cb) called on the nested session inside the callback: a KVError
\* when isTransaction(); otherwise the Transaction handle is asked for a
\* transaction, which it cannot give (a raw TypeError from the call)
NestedTransaction(t) ==
    /\ tx[t].pc = "cb"
    /\ nops < MaxOps
    /\ IF IsTransaction(t)
       THEN Rejects(t, "transaction", << >>, JsNull)
       ELSE /\ last' = [sess |-> t, op |-> "transaction", k |-> << >>,
                        v |-> JsNull, out |-> "TypeError", io |-> TRUE,
                        ret |-> << >>]
            /\ nops' = nops + 1
            /\ UNCHANGED <<store, now, listener, closed, conf, rbuf, tx, delivered>>

\* the callback resolves with r
CbReturn(t, r) ==
    /\ tx[t].pc = "cb"
    /\ tx' = [tx EXCEPT ![t].pc = "commit", ![t].ret = r]
    /\ UNCHANGED <<store, now, listener, closed, conf, rbuf, delivered, last, nops>>

\* mutant: a callback that rejects is treated as one that resolved
CbThrowCommits(t) ==
    /\ tx[t].pc = "cb"
    /\ tx' = [tx EXCEPT ![t].pc = "commit", ![t].threw = TRUE]
    /\ UNCHANGED <<store, now, listener, closed, conf, rbuf, delivered, last, nops>>

\* the callback rejects
CbThrow(t) ==
    /\ tx[t].pc = "cb"
    /\ tx' = [tx EXCEPT ![t].pc = "rollback", ![t].threw = TRUE]
    /\ UNCHANGED <<store, now, listener, closed, conf, rbuf, delivered, last, nops>>

\* mutant: a commit that throws is followed by the replay all the same
CommitFailureReplays(t) ==
    /\ tx[t].pc = "commit"
    /\ \E cok \in BOOLEAN :
          IF cok
          THEN /\ store' = tx[t].db
               /\ tx' = [tx EXCEPT ![t].pc = "replay", ![t].committed = TRUE,
                                   ![t].calls = Append(@, "commit")]
          ELSE /\ tx' = [tx EXCEPT ![t].pc = "replay",
                                   ![t].calls = Append(@, "commit")]
               /\ UNCHANGED store
    /\ UNCHANGED <<now, listener, closed, conf, rbuf, delivered, last, nops>>

\* kvTransaction.commit(): the writes reach the table, or commit throws
Commit(t) ==
    /\ tx[t].pc = "commit"
    /\ \E cok \in BOOLEAN :
          IF cok
          THEN /\ store' = tx[t].db
               /\ tx' = [tx EXCEPT ![t].pc = "replay", ![t].committed = TRUE,
                                   ![t].calls = Append(@, "commit")]
          ELSE /\ tx' = [tx EXCEPT ![t].pc = "rollback",
                                   ![t].calls = Append(@, "commit")]
               /\ UNCHANGED store
    /\ UNCHANGED <<now, listener, closed, conf, rbuf, delivered, last, nops>>

\* mutant: the buffer is replayed from its end
ReplayBackwards(t) ==
    /\ tx[t].pc = "replay"
    /\ tx[t].sent < Len(tx[t].buf)
    /\ \E lok \in BOOLEAN :
          tx' = [tx EXCEPT ![t].sent = @ + 1,
                           ![t].pc = IF lok THEN "replay" ELSE "rollback"]
    /\ delivered' = Append(delivered,
                           [src |-> t,
                            ev |-> tx[t].buf[Len(tx[t].buf) - tx[t].sent]])
    /\ UNCHANGED <<store, now, listener, closed, conf, rbuf, last, nops>>

\* one turn of the loop over the nested session's buffer
Replay(t) ==
    /\ tx[t].pc = "replay"
    /\ tx[t].sent < Len(tx[t].buf)
    /\ \E lok \in BOOLEAN :
          tx' = [tx EXCEPT ![t].sent = @ + 1,
                           ![t].pc = IF lok THEN "replay" ELSE "rollback"]
    /\ delivered' = Append(delivered,
                           [src |-> t, ev |-> tx[t].buf[tx[t].sent + 1]])
    /\ UNCHANGED <<store, now, listener, closed, conf, rbuf, last, nops>>

\* mutant: the handle is left open when transaction() returns
ReturnKeepsHandle(t) ==
    /\ tx[t].pc = "replay"
    /\ tx[t].sent = Len(tx[t].buf)
    /\ tx' = [tx EXCEPT ![t].pc = "done", ![t].out = "ok", ![t].val = tx[t].ret,
                        ![t].db = << >>, ![t].before = << >>]
    /\ UNCHANGED <<store, now, listener, closed, conf, rbuf, delivered, last, nops>>

\* the loop is over: return the callback's result, finally close the handle
Return(t) ==
    /\ tx[t].pc = "replay"
    /\ tx[t].sent = Len(tx[t].buf)
    /\ tx' = [tx EXCEPT ![t].pc = "done", ![t].out = "ok", ![t].val = tx[t].ret,
                        ![t].db = << >>, ![t].before = << >>,
                        ![t].calls = Append(@, "close")]
    /\ UNCHANGED <<store, now, listener, closed, conf, rbuf, delivered, last, nops>>

\* mutant: the catch block commits what the callback wrote
RollbackCommits(t) ==
    /\ tx[t].pc = "rollback"
    /\ \E rok \in BOOLEAN :
          tx' = [tx EXCEPT ![t].pc = "done",
                           ![t].out = IF rok THEN "KVError" ELSE "BackingError",
                           ![t].db = << >>, ![t].before = << >>,
                           ![t].calls = @ \o <<"rollback", "close">>]
    /\ store' = IF tx[t].committed THEN store ELSE tx[t].db
    /\ UNCHANGED <<now, listener, closed, conf, rbuf, delivered, last, nops>>

\* the catch block: rollback (which may throw), wrap the error as KVError,
\* finally close the handle; the working copy is dropped
Rollback(t) ==
    /\ tx[t].pc = "rollback"
    /\ \E rok \in BOOLEAN :
          tx' = [tx EXCEPT ![t].pc = "done",
                           ![t].out = IF rok THEN "KVError" ELSE "BackingError",
                           ![t].db = << >>, ![t].before = << >>,
                           ![t].calls = @ \o <<"rollback", "close">>]
    /\ UNCHANGED <<store, now, listener, closed, conf, rbuf, delivered, last, nops>>

Next ==
    \/ Tick
    \/ \E s \in Sessions, key \in Keys, v \in Values \cup {JsNull} : Set(s, key, v)
    \/ \E s \in Sessions, key \in Keys : Delete(s, key)
    \/ \E s \in Sessions, prefix \in DelPrefixes : DeleteAll(s, prefix)
    \/ \E s \in Sessions, key \in Keys : Get(s, key)
    \/ \E t \in TxIds : Begin(t)
    \/ \E t \in TxIds : NestedTransaction(t)
    \/ \E t \in TxIds, r \in CbResults : CbReturn(t, r)
    \/ \E t \in TxIds : CbThrow(t)
    \/ \E t \in TxIds : Commit(t)
    \/ \E t \in TxIds : Replay(t)
    \/ \E t \in TxIds : Return(t)
    \/ \E t \in TxIds : Rollback(t)

Spec == Init /\ [][Next]_vars

(***************************** list queries *********************************)
\* the rows set can have left for a key: created_at and updated_at are equal
ListRows == [v : {"1", "{}"}, created_at : 1..MaxClock, updated_at : 1..MaxClock]

\* the tables the write operations can have left
ListStores ==
    UNION { [D -> {r \in ListRows : r.created_at = r.updated_at}] :
              D \in SUBSET Keys }

\* the root session is about to issue the last of the caller's operations on
\* a table that earlier operations left
ListInit ==
    /\ store \in ListStores
    /\ now = MaxClock
    /\ listener = FALSE
    /\ tx = [t \in TxIds |-> IdleTx]
    /\ delivered = << >>
    /\ last = NoOp
    /\ nops = MaxOps - 1
    /\ closed = FALSE
    /\ conf = Opened
    /\ rbuf = << >>

ListNext ==
    /\ nops < MaxOps
    /\ \E prefix \in ListPrefixes, o \in ListOptions \cup {DefaultOptions} :
          List(Root, prefix, o)

ListSpec == ListInit /\ [][ListNext]_vars

(***************************** deleteAll then list **************************)
\* the root session is about to issue the caller's last two operations on a
\* table that earlier operations left
SweepInit ==
    /\ store \in ListStores
    /\ now = MaxClock
    /\ listener = FALSE
    /\ tx = [t \in TxIds |-> IdleTx]
    /\ delivered = << >>
    /\ last = NoOp
    /\ nops = MaxOps - 2
    /\ closed = FALSE
    /\ conf = Opened
    /\ rbuf = << >>

SweepNext ==
    \/ \E prefix \in DelPrefixes : DeleteAll(Root, prefix)
    \/ \E prefix \in DelPrefixes : List(Root, prefix, DefaultOptions)

SweepSpec == SweepInit /\ [][SweepNext]_vars

(***************************** close and sync *******************************)
\* close() on the root session, between transactions: instance.close()
\* returns and the client is closed, or it throws, the error is wrapped as a
\* KVError, and the client is left open or closed
Close ==
    /\ ~closed
    /\ \A t \in TxIds : tx[t].pc \in {"idle", "done"}
    /\ \E cok \in BOOLEAN, left \in BOOLEAN :
          /\ closed' = IF cok THEN TRUE ELSE left
          /\ last' = [sess |-> Root, op |-> "close", k |-> << >>, v |-> JsNull,
                      out |-> IF cok THEN "ok" ELSE "KVError", io |-> TRUE,
                      ret |-> << >>]
    /\ UNCHANGED <<store, now, listener, tx, delivered, nops, conf, rbuf>>

\* sync(): a handle with a sync method is asked to sync, outside any try
\* block; a transaction handle has none and nothing happens
Sync(s) ==
    /\ Usable(s)
    /\ nops < MaxOps
    /\ \E bok \in BOOLEAN :
          last' = [sess |-> s, op |-> "sync", k |-> << >>, v |-> JsNull,
                   out |-> IF IsTransaction(s) \/ (bok /\ ~Closed(s))
                           THEN "ok" ELSE "BackingError",
                   io |-> ~IsTransaction(s), ret |-> << >>]
    /\ nops' = nops + 1
    /\ UNCHANGED <<store, now, listener, closed, conf, rbuf, tx, delivered>>

CloseNext ==
    \/ Next
    \/ Close
    \/ \E s \in Sessions : Sync(s)

CloseSpec == Init /\ [][CloseNext]_vars

(***************************** class Kv *************************************)
\* INSERT INTO kv (k, v) VALUES (?, ?) ON CONFLICT(k) DO UPDATE SET v = ?: a
\* row that holds the key keeps its created_at, and the update trigger sets
\* its updated_at
Upsert(db, key, blob, t) ==
    [x \in (DOMAIN db) \cup {key} |->
        IF x = key
        THEN [v |-> blob,
              created_at |-> IF key \in DOMAIN db THEN db[key].created_at ELSE t,
              updated_at |-> t]
        ELSE db[x]]

\* Kv.set(key, value, options): the row is read back, and the event built,
\* only with options.returning
KvSetEffect(s, key, v, o) ==
    IF v = JsNull THEN DeleteEffect(s, key)
    ELSE LET db2 == Upsert(DbOf(s), key, JSONStringify(v), now)
             result == SelectRow(db2, key)[1]
             record == [result EXCEPT !.v = JSONParse(result.v)]
         IN [db |-> db2,
             evs |-> IF o.returning /\ listener
                     THEN << [type |-> "set", data |-> record] >>
                     ELSE << >>,
             ret |-> IF o.returning THEN << record >> ELSE << >>,
             log |-> [type |-> "set", k |-> key]]

KvSet(s, key, v, o) ==
    /\ Usable(s)
    /\ nops < MaxOps
    /\ IF v # JsNull /\ ~CanStringify(v) THEN Rejects(s, "set", key, v)
       ELSE IF Closed(s) THEN BackingThrows(s, "set", key, v)
       ELSE /\ Writable(s)
            /\ \E lok \in ListenerOutcomes(s, KvSetEffect(s, key, v, o)) :
                  Dispatch(s, "set", key, v, KvSetEffect(s, key, v, o), lok)

KvNext ==
    \/ Tick
    \/ \E s \in Sessions, key \in Keys, v \in Values \cup {JsNull},
          o \in SetOptions : KvSet(s, key, v, o)
    \/ \E s \in Sessions, key \in Keys : Delete(s, key)
    \/ \E t \in TxIds : Begin(t)
    \/ \E t \in TxIds, r \in CbResults : CbReturn(t, r)
    \/ \E t \in TxIds : CbThrow(t)
    \/ \E t \in TxIds : Commit(t)
    \/ \E t \in TxIds : Replay(t)
    \/ \E t \in TxIds : Return(t)
    \/ \E t \in TxIds : Rollback(t)

KvSpec == Init /\ [][KvNext]_vars

(***************************** reads among writes ***************************)
\* the callers set the number 1, delete, get and list on the root session and
\* inside transactions
ReadNext ==
    \/ \E s \in Sessions, key \in Keys : Set(s, key, JsNum1)
    \/ \E s \in Sessions, key \in Keys : Delete(s, key)
    \/ \E s \in Sessions, key \in Keys : Get(s, key)
    \/ \E s \in Sessions, prefix \in ListPrefixes, o \in ReadOptions :
          List(s, prefix, o)
    \/ \E t \in TxIds : Begin(t)
    \/ \E t \in TxIds, r \in CbResults : CbReturn(t, r)
    \/ \E t \in TxIds : CbThrow(t)
    \/ \E t \in TxIds : Commit(t)
    \/ \E t \in TxIds : Replay(t)
    \/ \E t \in TxIds : Return(t)
    \/ \E t \in TxIds : Rollback(t)

ReadSpec == Init /\ [][ReadNext]_vars

(***************************** opening **************************************)
\* openKV is about to be called; nothing exists yet
OpenInit ==
    /\ store = << >>
    /\ now = 1
    /\ listener \in BOOLEAN
    /\ tx = [t \in TxIds |-> IdleTx]
    /\ delivered = << >>
    /\ last = NoOp
    /\ nops = 0
    /\ closed = FALSE
    /\ conf \in Unopened
    /\ rbuf = << >>

OpenNext == OpenKV

OpenSpec == OpenInit /\ [][OpenNext]_vars

(***************************** foreign payloads *****************************)
\* the tables the write operations and another writer of the table can have
\* left: the value column is BLOB NOT NULL and takes any text
ForeignStores ==
    UNION { [D -> [v : {"1", Malformed}, created_at : {1}, updated_at : {1}]] :
              D \in SUBSET Keys }

\* the root session is about to issue the last of the caller's operations on
\* such a table
DecodeInit ==
    /\ store \in ForeignStores
    /\ now = MaxClock
    /\ listener = FALSE
    /\ tx = [t \in TxIds |-> IdleTx]
    /\ delivered = << >>
    /\ last = NoOp
    /\ nops = MaxOps - 1
    /\ closed = FALSE
    /\ conf = Opened
    /\ rbuf = << >>

DecodeNext ==
    \/ \E key \in Keys : Get(Root, key)
    \/ \E prefix \in ListPrefixes, o \in ReadOptions : List(Root, prefix, o)

DecodeSpec == DecodeInit /\ [][DecodeNext]_vars

(***************************** two callers **********************************)
\* two independent callers, each calling transaction() once on the root
\* session
Pair == {1, 2}

\* the key of the account and the balances and amounts of the withdrawals
Account == <<"a">>
Balances == {1, 2}
Amounts == {1, 2}

\* the number a JavaScript number value stands for, and back
NumOf(v) == CASE v = JsNum0 -> 0 [] v = JsNum1 -> 1 [] OTHER -> 2

JsNum(n) == CASE n = 0 -> JsNum0 [] n = 1 -> JsNum1 [] OTHER -> JsNum2

\* the table holds the account; no transaction has been started
PairInit ==
    /\ \E b \in Balances :
          store = [key \in {Account} |->
                     [v |-> JSONStringify(JsNum(b)), created_at |-> 1,
                      updated_at |-> 1]]
    /\ now = 1
    /\ listener \in BOOLEAN
    /\ tx = [t \in Pair |-> IdleTx]
    /\ delivered = << >>
    /\ last = NoOp
    /\ nops = 0
    /\ closed = FALSE
    /\ conf = Opened
    /\ rbuf = << >>

\* the caller calls transaction()
PairBegin(t) ==
    /\ tx[t].pc = "idle"
    /\ Begin(t)

\* the callback sets the number 1 under a key on its nested session; a
\* callback makes at most MaxOps such calls
CbSet(t, key) ==
    /\ tx[t].pc = "cb"
    /\ Len(tx[t].log) < MaxOps
    /\ Dispatch(t, "set", key, JsNum1, SetEffect(t, key, JsNum1), TRUE)

\* the withdraw callback: get the balance on the nested session, throw when
\* there is no account or the balance is less than the amount, else set the
\* balance less the amount
Withdraw(t, amount) ==
    /\ tx[t].pc = "cb"
    /\ tx[t].log = << >>
    /\ LET got == GetResult(DbOf(t), Account)
       IN IF got = << >> \/ NumOf(got[1].v) < amount
          THEN CbThrow(t)
          ELSE Dispatch(t, "set", Account, JsNum(NumOf(got[1].v) - amount),
                        SetEffect(t, Account, JsNum(NumOf(got[1].v) - amount)),
                        TRUE)

PairNext ==
    \/ \E t \in Pair : PairBegin(t)
    \/ \E t \in Pair : CbSet(t, <<"a", ":", "b">>)
    \/ \E t \in Pair, amount \in Amounts : Withdraw(t, amount)
    \/ \E t \in Pair : CbReturn(t, "r1")
    \/ \E t \in Pair : Commit(t)
    \/ \E t \in Pair : Replay(t)
    \/ \E t \in Pair : Return(t)
    \/ \E t \in Pair : Rollback(t)

PairSpec == PairInit /\ [][PairNext]_vars

(***************************** properties ***********************************)
\* an operation completed in this step
OpStep == nops' = nops + 1

\* the events the listener received from session s after position m
ReceivedFrom(s, m) ==
    SelectSeq(SubSeq(delivered, m + 1, Len(delivered)), LAMBDA e : e.src = s)

\* the set and delete calls among the writes of a transaction
EventfulWrites(t) == SelectSeq(tx[t].log, LAMBDA w : w.type # "deleteAll")

\* event e is the event of write w
EventOfWrite(e, w) ==
    /\ e.type = w.type
    /\ (e.data.k = w.k \/ (w.type = "delete" /\ e.data.k = UndefKey))

\* C1: when the callback of a transaction throws, the step that settles
\* transaction() leaves the store as it was when transaction() was called and
\* the listener has received no event from that attempt.
C1_ThrowRollsBack ==
    [][\A t \in TxIds :
          (tx[t].pc = "rollback" /\ tx[t].threw /\ tx'[t].pc = "done")
          => /\ store' = tx[t].before
             /\ store = tx[t].before
             /\ ReceivedFrom(t, tx[t].mark)' = << >>]_vars

\* C1 witness: a transaction on a non-empty store queued an event for a write
\* and was settled after its callback threw.
C1_Witness ==
    \E t \in TxIds : /\ tx[t].pc = "done" /\ tx[t].threw
                     /\ tx[t].buf # << >>
                     /\ store # << >>

C3_DispatchPolicy ==
    [][/\ (listener /\ OpStep /\ last'.io /\ last'.op \in {"set", "delete"})
          => LET s == last'.sess
                 type == IF last'.op = "delete" \/ last'.v = JsNull
                         THEN "delete" ELSE "set"
             IN IF s = Root
                THEN /\ Len(delivered') = Len(delivered) + 1
                     /\ delivered'[Len(delivered')].src = Root
                     /\ delivered'[Len(delivered')].ev.type = type
                     /\ SubSeq(delivered', 1, Len(delivered)) = delivered
                ELSE /\ delivered' = delivered
                     /\ Len(tx'[s].buf) = Len(tx[s].buf) + 1
                     /\ tx'[s].buf[Len(tx'[s].buf)].type = type
                     /\ SubSeq(tx'[s].buf, 1, Len(tx[s].buf)) = tx[s].buf
       /\ \A t \in TxIds :
             (delivered' # delivered /\ delivered'[Len(delivered')].src = t)
             => /\ tx[t].committed
                /\ delivered' = Append(delivered,
                                       [src |-> t,
                                        ev |-> tx[t].buf[tx[t].sent + 1]])]_vars

\* C3 witness: the listener holds an event dispatched by a root set followed
\* by an event replayed from a committed transaction.
C3_Witness ==
    /\ Len(delivered) = 2
    /\ delivered[1].src = Root
    /\ delivered[2].src \in TxIds
    /\ tx[delivered[2].src].committed

\* C4: transaction() called on a nested session throws a KVError before any
\* call on the backing handle, and changes neither the table, the enclosing
\* transaction, nor what the listener received.
C4_NestedTransactionRejected ==
    [][(OpStep /\ last'.op = "transaction")
       => /\ last'.out = "KVError"
          /\ ~last'.io
          /\ UNCHANGED <<store, tx, delivered>>]_vars

\* C4 witness: a transaction in which a nested transaction() was rejected
\* after a write went on and returned.
C4_Witness ==
    /\ last.op = "transaction" /\ last.out = "KVError"
    /\ tx[last.sess].pc = "done" /\ tx[last.sess].out = "ok"
    /\ tx[last.sess].log # << >>

\* the session of the last operation still shows the table that operation left
LastStands == last.sess = Root \/ tx[last.sess].pc = "cb"

\* C5 as stated: after set(k, v) with v not null returned, get(k) yields a
\* record with key k and value v.
C5_RoundTrip ==
    (last.op = "set" /\ last.v # JsNull /\ last.out = "ok" /\ LastStands)
    => /\ Len(GetResult(DbOf(last.sess), last.k)) = 1
       /\ GetResult(DbOf(last.sess), last.k)[1].k = last.k
       /\ GetResult(DbOf(last.sess), last.k)[1].v = last.v

\* C6: set(k, null) does what delete(k) does: the row of k is gone, get(k) is
\* null, set returns null, no row with k is written, and the one event built
\* (when a listener is configured) is a delete event.
C6_SetNullDeletes ==
    [][(OpStep /\ last'.op = "set" /\ last'.v = JsNull)
       => LET s == last'.sess
              key == last'.k
              evs == IF s = Root
                     THEN SubSeq(delivered', Len(delivered) + 1, Len(delivered'))
                     ELSE [i \in 1..(Len(tx'[s].buf) - Len(tx[s].buf)) |->
                             [src |-> s, ev |-> tx'[s].buf[Len(tx[s].buf) + i]]]
          IN /\ Db(s, store', tx') = DeleteRow(Db(s, store, tx), key)
             /\ GetResult(Db(s, store', tx'), key) = << >>
             /\ last'.ret = << >>
             /\ Len(evs) = IF listener THEN 1 ELSE 0
             /\ \A i \in 1..Len(evs) : evs[i].ev.type = "delete"
             /\ (last'.out = "ok" \/ (s = Root /\ listener))]_vars

\* C6 witness: set(k, null) on a key that was present returned null and the
\* listener received its delete event.
C6_Witness ==
    /\ last.op = "set" /\ last.v = JsNull /\ last.out = "ok"
    /\ last.sess = Root
    /\ delivered # << >>
    /\ delivered[Len(delivered)].ev.type = "delete"
    /\ delivered[Len(delivered)].ev.data.k = last.k

\* C7 as stated: a set with a non-null value on a key that exists leaves the
\* created_at of its record as it was.
C7_CreatedAtImmutable ==
    [][(OpStep /\ last'.op = "set" /\ last'.v # JsNull /\ last'.io
        /\ last'.k \in DOMAIN Db(last'.sess, store, tx))
       => Db(last'.sess, store', tx')[last'.k].created_at
            = Db(last'.sess, store, tx)[last'.k].created_at]_vars

\* s starts with p
StartsWith(s, p) == Len(s) >= Len(p) /\ SubSeq(s, 1, Len(p)) = p

\* a prefix that is not empty and does not end in ":"
PlainPrefix(p) == p # << >> /\ p[Len(p)] # ":"

\* C8 as stated, for plain prefixes: every record list(p) returns has a key
\* that starts with p + ":" as a literal, case-sensitive string, or, with
\* includeExactMatch, the key p itself.
C8_OnlyLiteralPrefix ==
    (last.op = "list" /\ PlainPrefix(last.k))
    => \A i \in 1..Len(last.ret) :
          \/ StartsWith(last.ret[i].k, last.k \o <<":">>)
          \/ (last.opts.includeExactMatch /\ last.ret[i].k = last.k)

\* C9: list returns at most limit records, every one a row of the table that
\* matches the WHERE clause, and meta.total is the number of rows of the table
\* that match it, whatever limit and offset are; limit 0 and an offset at or
\* beyond the total give empty data.
C9_LimitAndTotal ==
    (last.op = "list")
    => LET hits == {key \in DOMAIN store :
                      Where(key, last.k, last.opts.includeExactMatch)}
       IN /\ Len(last.ret) <= last.opts.limit
          /\ last.total = Cardinality(hits)
          /\ \A i \in 1..Len(last.ret) : last.ret[i].k \in hits
          /\ \A i, j \in 1..Len(last.ret) :
                i # j => last.ret[i].k # last.ret[j].k
          /\ (last.opts.limit = 0 => last.ret = << >>)
          /\ (last.opts.offset >= last.total => last.ret = << >>)
          /\ Len(last.ret) =
                IF last.opts.offset >= last.total THEN 0
                ELSE IF last.total - last.opts.offset < last.opts.limit
                     THEN last.total - last.opts.offset
                     ELSE last.opts.limit

\* C9 witness: limit 0 on a prefix that three rows match: no data, total 3.
C9_Witness ==
    /\ last.op = "list" /\ last.opts.limit = 0
    /\ last.total = 3 /\ last.ret = << >>

\* the data of windows 0..n-1 of size L, concatenated
RECURSIVE Windows(_, _, _, _, _)
Windows(db, prefix, o, L, n) ==
    IF n = 0 THEN << >>
    ELSE Windows(db, prefix, o, L, n - 1) \o
         ListResult(db, prefix,
                    [o EXCEPT !.limit = L, !.offset = (n - 1) * L]).data

\* C10: on the table as it stands, the windows of size limit >= 1 at offsets
\* 0, limit, 2*limit, ... concatenate to the data of one list call with limit
\* total, for every orderBy column and direction.
C10_Pagination ==
    (last.op = "list" /\ last.opts.limit >= 1)
    => LET o == last.opts
           whole == ListResult(store, last.k,
                               [o EXCEPT !.limit = last.total, !.offset = 0])
       IN /\ Windows(store, last.k, o, o.limit, last.total + 1) = whole.data
          /\ Len(whole.data) = last.total
          /\ o.offset % o.limit = 0
             => last.ret = SubSeq(whole.data, o.offset + 1,
                                  IF o.offset + o.limit < last.total
                                  THEN o.offset + o.limit ELSE last.total)

\* C10 witness: the second window of size 2 over three matching rows ordered
\* by a column on which rows tie.
C10_Witness ==
    /\ last.op = "list" /\ last.opts.limit = 2 /\ last.opts.offset = 2
    /\ last.total = 3 /\ Len(last.ret) = 1
    /\ last.opts.orderBy = "v"
    /\ \A x, y \in DOMAIN store : store[x].v = store[y].v

\* a sequence back to front
Reverse(seq) == [i \in 1..Len(seq) |-> seq[Len(seq) + 1 - i]]

C12_ListEmptyAfterDeleteAll ==
    [][(last.op = "deleteAll" /\ last.out = "ok" /\ OpStep
        /\ last'.op = "list" /\ last'.sess = last.sess /\ last'.k = last.k)
       => /\ last'.out = "ok"
          /\ last'.ret = << >>
          /\ last'.total = 0]_vars

\* C13: after deleteAll(prefix) the session's table holds no record whose key
\* starts with prefix + ":", and after deleteAll with the empty prefix it
\* holds no record at all; the records that remain are as they were.
C13_DeleteAllDeletes ==
    [][(OpStep /\ last'.op = "deleteAll" /\ last'.out = "ok")
       => LET before == Db(last'.sess, store, tx)
              after == Db(last'.sess, store', tx')
          IN /\ \A key \in DOMAIN after :
                   /\ key \in DOMAIN before
                   /\ after[key] = before[key]
                   /\ ~StartsWith(key, last'.k \o <<":">>)
             /\ last'.k = << >> => after = << >>]_vars

\* C13 witness: deleteAll("a") inside a transaction removed "a:b", which the
\* table held when the transaction began.
C13_Witness ==
    /\ last.op = "deleteAll" /\ last.out = "ok" /\ last.k = <<"a">>
    /\ last.sess \in TxIds
    /\ tx[last.sess].pc = "cb"
    /\ <<"a", ":", "b">> \in DOMAIN tx[last.sess].before
    /\ <<"a", ":", "b">> \notin DOMAIN tx[last.sess].db

\* C14: once the root session's client is closed, every set, get, delete,
\* deleteAll on the root session throws a KVError and leaves the table and the
\* listener as they were; no operation on it succeeds, and transaction() opens
\* nothing.
C14_ClosedRejects ==
    [][closed
       => /\ (OpStep /\ last'.sess = Root)
             => /\ last'.out # "ok"
                /\ last'.op \in {"set", "get", "delete", "deleteAll"}
                   => last'.out = "KVError"
                /\ store' = store
                /\ delivered' = delivered
          /\ \A t \in TxIds :
                tx'[t] # tx[t] => (tx'[t].pc = "done" /\ tx'[t].out # "ok")
          /\ store' = store]_vars

\* C14 witness: after close() a set of a new key with a storable value threw a
\* KVError and the table, which holds a record, does not hold that key.
C14_Witness ==
    /\ closed
    /\ last.op = "set" /\ last.v = JsNum1 /\ last.out = "KVError"
    /\ store # << >>
    /\ last.k \notin DOMAIN store

\* C15 as stated: a failure of the backing store reaches the caller of a
\* session operation or of transaction() as a KVError, never as the backing
\* store's own error.
C15_OnlyKVError ==
    /\ last.out \in {"none", "ok", "KVError"}
    /\ \A t \in TxIds : tx[t].out \in {"none", "ok", "KVError"}

\* how many times x occurs in seq
Count(seq, x) == Cardinality({i \in 1..Len(seq) : seq[i] = x})

\* C16 as stated: when the listener throws during the replay after a
\* successful commit, transaction() rejects with the listener's own error, not
\* a KVError, the committed table stays, and rollback is not called.
C16_ListenerErrorDirect ==
    [][\A t \in TxIds :
          (tx[t].pc = "rollback" /\ tx[t].committed /\ tx'[t].pc = "done")
          => /\ tx'[t].out = "ListenerError"
             /\ store' = store
             /\ Count(tx'[t].calls, "rollback") = 0]_vars

\* C17: a transaction handle that was opened is not closed while
\* transaction() runs and has been closed exactly once, as the last call on
\* it, when transaction() has settled, whichever way it settled; where no
\* handle was opened none is closed.
C17_HandleClosedOnce ==
    \A t \in TxIds :
        LET c == tx[t].calls
        IN /\ tx[t].pc \in {"cb", "commit", "replay", "rollback"}
              => (c # << >> /\ c[1] = "transaction" /\ Count(c, "close") = 0)
           /\ (tx[t].pc = "done" /\ c # << >>)
              => (Count(c, "close") = 1 /\ c[Len(c)] = "close")
           /\ (tx[t].pc = "done" /\ c = << >>) => tx[t].out = "BackingError"

\* C17 witness: the listener threw during the replay, rollback threw in the
\* catch block, and the handle was closed once, last.
C17_Witness ==
    \E t \in TxIds :
        /\ tx[t].pc = "done" /\ tx[t].out = "BackingError"
        /\ tx[t].calls = <<"transaction", "commit", "rollback", "close">>
        /\ tx[t].sent >= 1

\* C18 as stated: when the callback fails, transaction() calls rollback and
\* not commit, delivers none of the queued events, and rejects with a KVError.
C18_CallbackFailureWrapped ==
    [][\A t \in TxIds :
          (tx[t].pc = "rollback" /\ tx[t].threw /\ tx'[t].pc = "done")
          => /\ tx'[t].out = "KVError"
             /\ Count(tx'[t].calls, "rollback") = 1
             /\ Count(tx'[t].calls, "commit") = 0
             /\ ReceivedFrom(t, tx[t].mark)' = << >>]_vars

C20_ExactlyOneEvent ==
    [][(listener /\ OpStep /\ last'.io /\ last'.op \in {"set", "delete"}
        /\ ~Closed(last'.sess))
       => LET s == last'.sess
          IN IF s = Root
             THEN /\ Len(delivered') = Len(delivered) + 1
                  /\ tx' = tx
             ELSE /\ delivered' = delivered
                  /\ Len(tx'[s].buf) = Len(tx[s].buf) + 1]_vars

\* C21: on a key the session's table does not hold, get returns null and
\* changes nothing, and delete leaves the table as it was; neither throws
\* (unless the listener of a root session throws on the delete event), with
\* and without a listener, on the root session and on nested sessions.
C21_AbsentKeyIsNormal ==
    [][(OpStep /\ last'.io /\ ~Closed(last'.sess)
        /\ last'.op \in {"get", "delete"}
        /\ last'.k \notin DOMAIN Db(last'.sess, store, tx))
       => /\ last'.ret = << >>
          /\ Db(last'.sess, store', tx') = Db(last'.sess, store, tx)
          /\ store' = store
          /\ last'.op = "get"
             => (last'.out = "ok" /\ UNCHANGED <<tx, delivered>>)
          /\ last'.op = "delete"
             => (last'.out = "ok" \/ (last'.sess = Root /\ listener))]_vars

\* C21 witness: with a listener configured, delete of an absent key returned
\* inside a transaction whose table holds another record.
C21_Witness ==
    /\ listener
    /\ last.op = "delete" /\ last.out = "ok" /\ last.sess \in TxIds
    /\ tx[last.sess].pc = "cb"
    /\ tx[last.sess].db # << >>
    /\ tx[last.sess].db = tx[last.sess].before
    /\ last.k \notin DOMAIN tx[last.sess].db

\* C22: list with an orderBy that is not one of the four columns throws a
\* KVError without sending anything to the backing store, and leaves the
\* table, every buffer and what the listener received as they were.
C22_InvalidOrderByFailsFast ==
    [][(OpStep /\ last'.op = "list"
        /\ last'.opts.orderBy \notin {"k", "v", "created_at", "updated_at"})
       => /\ last'.out = "KVError"
          /\ ~last'.io
          /\ last'.ret = << >>
          /\ UNCHANGED <<store, tx, delivered, rbuf>>]_vars

\* C22 witness: list ordered by rowid was rejected inside a transaction that
\* has a write on its table and an event on its buffer.
C22_Witness ==
    /\ last.op = "list" /\ last.opts.orderBy = "rowid"
    /\ last.out = "KVError" /\ ~last.io
    /\ last.sess \in TxIds
    /\ tx[last.sess].pc = "cb"
    /\ tx[last.sess].buf # << >>
    /\ tx[last.sess].db # << >>

\* the pieces of SQL text list is written with
SqlPieces ==
    {"SELECT k,v,created_at,updated_at FROM kv WHERE ",
     "SELECT COUNT(*) as total FROM kv WHERE ", "k LIKE ? || '%' ",
     " OR k = ?", " ORDER BY ", " LIMIT ? OFFSET ?;", ";", " ", ", ", "ASC",
     "DESC", "k", "v", "created_at", "updated_at"}

\* C23: the SQL text of the data query and of the count query that list sends
\* is made of fixed pieces and an allow-listed column only, is the same for
\* every prefix, limit and offset, and the scan prefix, the prefix, the limit
\* and the offset are sent as bound arguments.
C23_ListSqlIsParameterised ==
    (last.op = "list" /\ last.io)
    => LET q == last.batch[1]
           o == last.opts
       IN /\ \A i \in 1..Len(q.data.sql) : q.data.sql[i] \in SqlPieces
          /\ \A i \in 1..Len(q.count.sql) : q.count.sql[i] \in SqlPieces
          /\ q.count.args = <<ScanPrefix(last.k)>> \o
                (IF o.includeExactMatch THEN <<last.k>> ELSE << >>)
          /\ q.data.args = q.count.args \o <<o.limit, o.offset>>
          /\ \A p \in ListPrefixes, l \in 0..MaxLimit, f \in 0..MaxLimit :
                LET q2 == ListStatements(p, [o EXCEPT !.limit = l,
                                                      !.offset = f])
                IN /\ q2.data.sql = q.data.sql
                   /\ q2.count.sql = q.count.sql

\* C23 witness: a list call with the prefix "_", includeExactMatch and a
\* descending order by value sent its batch.
C23_Witness ==
    /\ last.op = "list" /\ last.io /\ last.k = <<"_">>
    /\ last.opts.includeExactMatch /\ last.opts.reverse
    /\ last.opts.orderBy = "v"
    /\ Len(last.batch[1].data.args) = 4

\* C24: the record a set with a non-null value returns is, field for field,
\* the record get returns for the key on the table the set left.
C24_SetReturnsWhatGetReturns ==
    [][(OpStep /\ last'.op = "set" /\ last'.v # JsNull /\ last'.out = "ok")
       => /\ Len(last'.ret) = 1
          /\ last'.ret = GetResult(Db(last'.sess, store', tx'), last'.k)
          /\ last'.ret[1].k = last'.k]_vars

\* C24 witness: a set of NaN, the caller's second operation, returned at the
\* last second a record whose value is null.
C24_Witness ==
    /\ last.op = "set" /\ last.v = JsNaN /\ last.out = "ok"
    /\ last.sess = Root
    /\ last.ret # << >>
    /\ last.ret[1].v = JsNull
    /\ last.ret[1].created_at = MaxClock
    /\ nops = 2

\* C25: a get or a list, whether it returns or throws, changes neither the
\* table, nor any transaction and its buffer, nor the root session's buffer,
\* nor the sequence of events the listener has received.
C25_ReadsChangeNothing ==
    [][(OpStep /\ last'.op \in {"get", "list"})
       => UNCHANGED <<store, tx, delivered, rbuf, closed>>]_vars

\* C25 witness: with a listener configured, a get inside a transaction
\* returned the record the transaction wrote; its event waits on the buffer
\* and the listener has received nothing.
C25_Witness ==
    /\ listener
    /\ last.op = "get" /\ last.out = "ok" /\ last.ret # << >>
    /\ last.sess \in TxIds
    /\ tx[last.sess].pc = "cb"
    /\ Len(tx[last.sess].buf) = 1
    /\ delivered = << >>

\* a syncInterval that was supplied and is not a number: NaN, the string "abc"
NotNumeric(x) == x \in {JsNaN, "'abc'"}

\* C26 as stated: when the url is missing, or a syncInterval is supplied that
\* is not numeric, openKV throws its configuration error and no client has
\* been created.
C26_BadConfigurationRejected ==
    [][(conf.out = "none" /\ conf'.out # "none"
        /\ (conf.url = "" \/ NotNumeric(conf.syncInterval)))
       => /\ conf'.out = "Error"
          /\ ~conf'.created]_vars

\* C27: consecutive records of a list result are in the order of the orderBy
\* column in the requested direction, and where they tie on that column, in
\* the order of their keys in the same direction; the same call on the same
\* table yields the same sequence.
C27_SortedWithKeyTieBreak ==
    (last.op = "list" /\ last.out = "ok")
    => /\ \A i \in 1..(Len(last.ret) - 1) :
             LET a == SelectRow(store, last.ret[i].k)[1]
                 b == SelectRow(store, last.ret[i + 1].k)[1]
                 lo == IF last.opts.reverse THEN b ELSE a
                 hi == IF last.opts.reverse THEN a ELSE b
                 col == last.opts.orderBy
             IN /\ ~ColLess(col, hi, lo)
                /\ ~ColLess(col, lo, hi) => KeyLess(lo.k, hi.k)
       /\ last.ret = ListResult(store, last.k, last.opts).data

\* C27 witness: a descending listing by created_at of three rows, two of
\* which tie on created_at.
C27_Witness ==
    /\ last.op = "list" /\ last.out = "ok"
    /\ last.opts.reverse /\ last.opts.orderBy = "created_at"
    /\ Len(last.ret) = 3
    /\ last.ret[1].created_at = last.ret[2].created_at
    /\ last.ret[2].created_at # last.ret[3].created_at

\* C28: with includeExactMatch, a page that holds every matching row holds
\* the record whose key is the prefix argument as the caller gave it, when
\* the table has one; every other record on it matches the scan pattern; and
\* for the prefix "a:" the record with key "a" is not on it.
C28_ExactMatchIsVerbatim ==
    (last.op = "list" /\ last.out = "ok" /\ last.opts.includeExactMatch
     /\ last.opts.offset = 0 /\ last.opts.limit >= last.total)
    => LET keys == {last.ret[i].k : i \in 1..Len(last.ret)}
       IN /\ last.k \in DOMAIN store => last.k \in keys
          /\ \A key \in keys :
                key = last.k \/ Like(ScanPrefix(last.k) \o <<"%">>, key)
          /\ last.k = <<"a", ":">> => <<"a">> \notin keys

\* C28 witness: list("a") with includeExactMatch returned the record "a"
\* together with the records under "a:".
C28_Witness ==
    /\ last.op = "list" /\ last.out = "ok" /\ last.opts.includeExactMatch
    /\ last.k = <<"a">>
    /\ Len(last.ret) = 3
    /\ \E i \in 1..3 : last.ret[i].k = <<"a">>

\* C29: the buffer of a transaction attempt holds only events of operations
\* issued in that attempt (it is empty when the callback starts), what the
\* listener has received from an attempt that opened its transaction is the
\* part of that buffer replayed so far, and the buffer of the root session is
\* always empty.
C29_FreshQueuePerAttempt ==
    /\ rbuf = << >>
    /\ \A t \in TxIds :
          /\ Len(tx[t].buf) <= nops - tx[t].from
          /\ (tx[t].pc = "cb" /\ nops = tx[t].from) => tx[t].buf = << >>
          /\ tx[t].calls # << >>
             => ReceivedFrom(t, tx[t].mark) =
                  [i \in 1..tx[t].sent |-> [src |-> t, ev |-> tx[t].buf[i]]]

\* C29 witness: after an attempt that rolled back with an event on its
\* buffer, a second attempt committed and the listener received its one event
\* and nothing else.
C29_Witness ==
    \E t \in TxIds :
        /\ tx[t].lost
        /\ tx[t].pc = "done" /\ tx[t].out = "ok"
        /\ Len(tx[t].buf) = 1
        /\ Len(delivered) = 1
        /\ delivered[1].ev = tx[t].buf[1]

\* C30 as stated: the event a delete (or a set of null) builds carries a
\* record with the key that was passed, the value null and the timestamps of
\* a record, whether or not the table held the key.
C30_DeleteEventCarriesKey ==
    [][(listener /\ OpStep /\ last'.io /\ ~Closed(last'.sess)
        /\ (last'.op = "delete" \/ (last'.op = "set" /\ last'.v = JsNull)))
       => LET s == last'.sess
              ev == IF s = Root THEN delivered'[Len(delivered')].ev
                    ELSE tx'[s].buf[Len(tx'[s].buf)]
          IN /\ ev.type = "delete"
             /\ ev.data.k = last'.k
             /\ ev.data.v = JsNull
             /\ ev.data.created_at # UndefTime]_vars

\* C31: a get of a key, or a list whose page holds a row, whose stored payload
\* is not valid JSON throws a KVError and returns nothing; a get of a key the
\* table does not hold returns null without an error, so the two differ; and
\* a result that is returned holds only rows whose payload parsed.
C31_MalformedPayloadThrows ==
    LET valid == {"0", "1", "2", "{}", "null"}
        bad(key) == key \in DOMAIN store /\ store[key].v \notin valid
    IN /\ (last.op = "get" /\ bad(last.k))
          => (last.out = "KVError" /\ last.ret = << >>)
       /\ (last.op = "get" /\ last.k \notin DOMAIN store)
          => (last.out = "ok" /\ last.ret = << >>)
       /\ (last.op = "list" /\ last.opts.orderBy \in ValidColumns)
          => LET page == ListResult(store, last.k, last.opts).data
             IN IF \E i \in 1..Len(page) : bad(page[i].k)
                THEN last.out = "KVError" /\ last.ret = << >>
                ELSE last.out = "ok" /\ last.ret = page
       /\ last.out = "ok"
          => \A i \in 1..Len(last.ret) : ~bad(last.ret[i].k)

\* C31 witness: a list by value, descending, with limit 1 threw on a table
\* that holds a malformed row first in that order and a valid row after it.
C31_Witness ==
    /\ last.op = "list" /\ last.out = "KVError" /\ last.io
    /\ last.opts.limit = 1 /\ last.opts.orderBy = "v"
    /\ \E x, y \in DOMAIN store : store[x].v = Malformed /\ store[y].v = "1"

Balance(db) == NumOf(JSONParse(db[Account].v))

\* C33: a transaction that commits finds the table as it was when the
\* transaction began, so the committed transactions take effect one after
\* the other in commit order; a withdrawal that commits takes the amount it
\* decided on from the balance as it stands, and the balance never goes below
\* zero.
C33_CommitsAreSerial ==
    [][\A t \in Pair :
          (tx[t].pc = "commit" /\ tx'[t].committed)
          => /\ store = tx[t].before
             /\ store' = tx[t].db
             /\ Account \in DOMAIN store'
             /\ Balance(store') >= 0
             /\ Balance(store) - Balance(store')
                  = Balance(tx[t].before) - Balance(tx[t].db)]_vars

\* C33 witness: on a balance that covers one withdrawal of the two, one
\* caller's withdrawal committed and the other caller's transaction, begun
\* after it, threw on the balance that was left.
C33_Witness ==
    \E t, u \in Pair :
        /\ t # u
        /\ tx[t].pc = "done" /\ tx[t].committed
        /\ Len(tx[t].log) = 1 /\ tx[t].log[1].k = Account
        /\ tx[u].pc = "done" /\ tx[u].threw
        /\ tx[u].calls # << >>
        /\ Balance(store) = 0

\* C34 as stated: the events the listener has received from one committed
\* transaction form one contiguous block: no event of another transaction
\* lies between two of them.
C34_ContiguousBlocks ==
    \A i, k \in 1..Len(delivered) :
        (i < k /\ delivered[i].src = delivered[k].src
         /\ delivered[i].src \in Pair)
        => \A j \in i..k : delivered[j].src = delivered[i].src

\* C35: once commit has thrown, the listener never receives an event of that
\* transaction, and when transaction() settles rollback has been called once
\* and the outcome is a rejection.
C35_FailedCommitDeliversNothing ==
    [][\A t \in TxIds :
          /\ (Count(tx'[t].calls, "commit") = 1 /\ ~tx'[t].committed)
             => /\ ReceivedFrom(t, tx[t].mark)' = << >>
                /\ tx'[t].sent = 0
                /\ tx'[t].pc \in {"rollback", "done"}
          /\ (tx[t].pc = "rollback" /\ Count(tx[t].calls, "commit") = 1
              /\ ~tx[t].committed /\ tx'[t].pc = "done")
             => /\ Count(tx'[t].calls, "rollback") = 1
                /\ tx'[t].out \in {"KVError", "BackingError"}
                /\ store' = tx[t].before]_vars

\* C35 witness: with a listener, a transaction with an event on its buffer
\* settled with a KVError after its commit threw and its rollback returned.
C35_Witness ==
    /\ listener
    /\ \E t \in TxIds :
          /\ tx[t].pc = "done" /\ tx[t].out = "KVError"
          /\ tx[t].calls = <<"transaction", "commit", "rollback", "close">>
          /\ ~tx[t].committed
          /\ tx[t].buf # << >>

\* C36: a set or delete on the root session that went to the backing store
\* and threw a KVError did so after the listener was handed its event; the
\* write stands: a set value is in the table under the key, a deleted key is
\* gone, and nothing is returned.
C36_ListenerThrowKeepsWrite ==
    [][(OpStep /\ last'.sess = Root /\ last'.io /\ ~closed
        /\ last'.op \in {"set", "delete"} /\ last'.out = "KVError")
       => /\ listener
          /\ Len(delivered') = Len(delivered) + 1
          /\ delivered'[Len(delivered')].src = Root
          /\ last'.ret = << >>
          /\ IF last'.op = "set" /\ last'.v # JsNull
             THEN /\ last'.k \in DOMAIN store'
                  /\ store'[last'.k].v = JSONStringify(last'.v)
                  /\ store'[last'.k].updated_at = now
             ELSE last'.k \notin DOMAIN store']_vars

\* C36 witness: the first operation, a set of 1 on the root session, threw a
\* KVError and the table, empty before, holds the key.
C36_Witness ==
    /\ nops = 1
    /\ last.sess = Root /\ last.op = "set" /\ last.v = JsNum1
    /\ last.out = "KVError" /\ last.io
    /\ last.k \in DOMAIN store
    /\ Len(delivered) = 1

\* C37 as stated: set(k, v) and delete(k) leave every record under another
\* key as it was, and deleteAll(prefix) with a non-empty prefix leaves every
\* record whose key does not start with the literal prefix + ":".
C37_WriteFrame ==
    [][/\ (OpStep /\ last'.io /\ last'.op \in {"set", "delete"})
          => LET before == Db(last'.sess, store, tx)
                 after == Db(last'.sess, store', tx')
             IN \A key \in (DOMAIN before) \ {last'.k} :
                   key \in DOMAIN after /\ after[key] = before[key]
       /\ (OpStep /\ last'.io /\ last'.op = "deleteAll" /\ last'.k # << >>)
          => LET before == Db(last'.sess, store, tx)
                 after == Db(last'.sess, store', tx')
             IN \A key \in DOMAIN before :
                   ~StartsWith(key, last'.k \o <<":">>)
                   => (key \in DOMAIN after /\ after[key] = before[key])]_vars

====
